---- MODULE Spec2Model ----
(***************************************************************************)
(* A model of the bincom election-results repository: src/data.py (the     *)
(* dump parser, the table assembler, the query layer, the mutation path)   *)
(* and the add-polling-unit workflow of src/streamlit_app.py.              *)
(*                                                                         *)
(* Text is modelled as a sequence of one-character strings.  A scalar of   *)
(* the parser is a record [kind, neg, n, f, s]:                            *)
(*   kind "null"                     Python None                           *)
(*   kind "int"   neg, n            the integer (-1)^neg * n               *)
(*   kind "float" neg, n, f         the decimal n.f (f without trailing    *)
(*                                   zeros), negative when neg             *)
(*   kind "str"   s                 the string s                           *)
(***************************************************************************)
EXTENDS Integers, Sequences, FiniteSets, TLC

VARIABLES
    pc,          \* position of the run that the specification at hand models
    token,       \* _convert_sql_value: its argument
    converted,   \* _convert_sql_value: its return value
    pu_row,      \* append_polling_unit_to_sql: the field mapping written
    sql_text,    \* the text appended to the dump (after the VALUES keyword)
    parsed,      \* _parse_insert_blocks: the rows read back
    dump,        \* the tables of the dump file, as load_tables_from_sql reads them
    DF,          \* the Assembled Table
    error,       \* the exception the last operation raised, "" when none
    mapping,     \* _load_state_mapping: the call made and the mapping returned
    added,       \* history: the rows passed to add_polling_unit_to_df so far
    query,       \* the last listing or filter call and what it returned
    cached,      \* st.cache_data: the value load_data() has cached, if any
    appended     \* history: the rows whose statements were appended to the dump

parseVars == <<token, converted, pu_row, sql_text, parsed>>
tableVars == <<dump, DF, error, mapping, added, query>>
sessionVars == <<cached, appended>>
vars ==
    <<pc, token, converted, pu_row, sql_text, parsed, dump, DF, error, mapping, added, query,
      cached, appended>>

----------------------------------------------------------------------------
(* Bounds *)

\* longest token handed to _convert_sql_value
MaxTokLen == 4

\* longest polling-unit name written to the dump and read back
MaxNameLen == 3

\* most rows of the polling_unit table of a dump
MaxPU == 2

\* most rows of the announced_pu_results table of a dump
MaxTally == 2

----------------------------------------------------------------------------
(* Characters and scalars *)

Digits == {"0", "1", "2", "3", "4", "5", "6", "7", "8", "9"}

DigitVal(c) ==
    CASE c = "0" -> 0 [] c = "1" -> 1 [] c = "2" -> 2 [] c = "3" -> 3
      [] c = "4" -> 4 [] c = "5" -> 5 [] c = "6" -> 6 [] c = "7" -> 7
      [] c = "8" -> 8 [] c = "9" -> 9

DigitChar(d) ==
    CASE d = 0 -> "0" [] d = 1 -> "1" [] d = 2 -> "2" [] d = 3 -> "3"
      [] d = 4 -> "4" [] d = 5 -> "5" [] d = 6 -> "6" [] d = 7 -> "7"
      [] d = 8 -> "8" [] d = 9 -> "9"

\* str.isspace of one character
IsSpace(c) == c \in {" ", "\t", "\n", "\r"}

\* str.upper of one character (the letters the model's texts use)
Upper(c) ==
    CASE c = "n" -> "N" [] c = "u" -> "U" [] c = "l" -> "L" [] c = "e" -> "E"
      [] c = "a" -> "A" [] c = "b" -> "B"
      [] OTHER -> c

UpperStr(s) == [i \in DOMAIN s |-> Upper(s[i])]

RECURSIVE LStrip(_)
LStrip(s) == IF s # <<>> /\ IsSpace(s[1]) THEN LStrip(Tail(s)) ELSE s

RECURSIVE RStrip(_)
RStrip(s) ==
    IF s # <<>> /\ IsSpace(s[Len(s)]) THEN RStrip(SubSeq(s, 1, Len(s) - 1)) ELSE s

\* str.strip()
Strip(s) == RStrip(LStrip(s))

None == [kind |-> "null", neg |-> FALSE, n |-> 0, f |-> <<>>, s |-> <<>>]
MkInt(neg, n) == [kind |-> "int", neg |-> neg /\ n # 0, n |-> n, f |-> <<>>, s |-> <<>>]
MkStr(s) == [kind |-> "str", neg |-> FALSE, n |-> 0, f |-> <<>>, s |-> s]

RECURSIVE DropTrailingZeros(_)
DropTrailingZeros(ds) ==
    IF ds # <<>> /\ ds[Len(ds)] = "0"
    THEN DropTrailingZeros(SubSeq(ds, 1, Len(ds) - 1))
    ELSE ds

MkFloat(neg, n, f) ==
    LET g == DropTrailingZeros(f)
    IN  [kind |-> "float", neg |-> neg /\ (n # 0 \/ g # <<>>), n |-> n, f |-> g, s |-> <<>>]

\* the value of a run of decimal digits
RECURSIVE DecVal(_)
DecVal(ds) ==
    IF ds = <<>> THEN 0 ELSE 10 * DecVal(SubSeq(ds, 1, Len(ds) - 1)) + DigitVal(ds[Len(ds)])

----------------------------------------------------------------------------
(* src/data.py: _convert_sql_value *)

\* how far \d+ reaches from position i (i itself when no digit is there)
RECURSIVE ScanDigits(_, _)
ScanDigits(s, i) ==
    IF i <= Len(s) /\ s[i] \in Digits THEN ScanDigits(s, i + 1) ELSE i

\* the optional sign that -? takes
SignLen(s) == IF s # <<>> /\ s[1] = "-" THEN 1 ELSE 0

\* re.fullmatch(r"-?(0|[1-9]\d*)", s): an integer pattern that refuses
\* leading zeros
FullMatchIntNoLeadingZero(s) ==
    LET a == SignLen(s) + 1
        b == ScanDigits(s, a)
    IN  b > a /\ b = Len(s) + 1 /\ (b - a > 1 => s[a] # "0")

\* re.fullmatch(r"-?\d+", s)
FullMatchInt(s) ==
    LET a == SignLen(s) + 1
        b == ScanDigits(s, a)
    IN  b > a /\ b = Len(s) + 1

\* re.fullmatch(r"-?\d+\.\d+", s)
FullMatchFloat(s) ==
    LET a == SignLen(s) + 1
        b == ScanDigits(s, a)
        c == ScanDigits(s, b + 1)
    IN  /\ b > a
        /\ b <= Len(s)
        /\ s[b] = "."
        /\ c > b + 1
        /\ c = Len(s) + 1

\* int(s) of a string that matched -?\d+
PyInt(s) == MkInt(SignLen(s) = 1, DecVal(SubSeq(s, SignLen(s) + 1, Len(s))))

\* float(s) of a string that matched -?\d+\.\d+
PyFloat(s) ==
    LET a == SignLen(s) + 1
        b == ScanDigits(s, a)
    IN  MkFloat(SignLen(s) = 1, DecVal(SubSeq(s, a, b - 1)), SubSeq(s, b + 1, Len(s)))

ConvertSqlValue(tok) ==
    LET t == Strip(tok)
    IN  IF UpperStr(t) = <<"N", "U", "L", "L">> \/ t = <<>> THEN None
        ELSE IF FullMatchInt(t) THEN PyInt(t)
        ELSE IF FullMatchFloat(t) THEN PyFloat(t)
        ELSE MkStr(t)

----------------------------------------------------------------------------
(* src/data.py: append_polling_unit_to_sql *)

col_order ==
    <<"uniqueid", "polling_unit_id", "ward_id", "lga_id", "uniquewardid",
      "polling_unit_number", "polling_unit_name", "polling_unit_description",
      "lat", "long", "entered_by_user", "date_entered", "user_ip_address">>

\* dict.get(key): None for a key the mapping lacks
Get(row, key) == IF key \in DOMAIN row THEN row[key] ELSE None

\* str(n) of a natural number
RECURSIVE NatStr(_)
NatStr(n) == IF n < 10 THEN <<DigitChar(n)>> ELSE NatStr(n \div 10) \o <<DigitChar(n % 10)>>

\* str(int(v)) of an int or a float: int() drops the fraction
IntStr(v) == IF v.neg /\ v.n # 0 THEN <<"-">> \o NatStr(v.n) ELSE NatStr(v.n)

\* str.replace("'", "\\'")
RECURSIVE EscapeQuotes(_)
EscapeQuotes(s) ==
    IF s = <<>> THEN <<>>
    ELSE (IF s[1] = "'" THEN <<"\\", "'">> ELSE <<s[1]>>) \o EscapeQuotes(Tail(s))

FormatVal(v) ==
    IF v.kind = "null" THEN <<"N", "U", "L", "L">>
    ELSE IF v.kind \in {"int", "float"} THEN IntStr(v)
    ELSE <<"'">> \o EscapeQuotes(v.s) \o <<"'">>

\* ', '.join(values)
RECURSIVE JoinValues(_)
JoinValues(vs) ==
    IF vs = <<>> THEN <<>>
    ELSE IF Len(vs) = 1 THEN vs[1]
    ELSE vs[1] \o <<",", " ">> \o JoinValues(Tail(vs))

\* The statement written.  Its head, INSERT INTO `polling_unit` (`uniqueid`,
\* ...) VALUES, is kept as the table and column names it spells; text is what
\* follows the VALUES keyword.
InsertStatement(row) ==
    [table |-> "polling_unit",
     cols  |-> col_order,
     text  |-> <<" ", "(">> \o JoinValues([i \in DOMAIN col_order |-> FormatVal(Get(row, col_order[i]))])
                   \o <<")", ";", "\n">>]

----------------------------------------------------------------------------
(* src/data.py: _parse_insert_blocks *)

\* first position >= i of character c in s, Len(s) + 1 when there is none
Find(s, c, i) ==
    LET at == {j \in i..Len(s) : s[j] = c}
    IN  IF at = {} THEN Len(s) + 1 ELSE CHOOSE j \in at : \A k \in at : j <= k

\* the group (.*?) of VALUES\s*(.*?); : whitespace skipped, then everything
\* before the first semicolon
ValuesRaw(text) ==
    LET t == LStrip(text)
    IN  SubSeq(t, 1, Find(t, ";", 1) - 1)

\* whether VALUES\s*(.*?); finds its semicolon in the statement
HasTerminator(text) == Find(text, ";", 1) <= Len(text)

\* re.findall(r"\(([^)]*)\)", values_raw): from each opening parenthesis to the
\* first closing one after it
RECURSIVE FindTuples(_, _)
FindTuples(s, i) ==
    LET a == Find(s, "(", i)
        b == Find(s, ")", a + 1)
    IN  IF a > Len(s) \/ b > Len(s) THEN <<>>
        ELSE <<SubSeq(s, a + 1, b - 1)>> \o FindTuples(s, b + 1)

\* csv.reader([tup], delimiter=',', quotechar="'", skipinitialspace=True): one
\* step of the reader's automaton on character c; q.st is its state, q.fld the
\* field being read, q.out the fields saved.
CsvStep(q, c) ==
    CASE q.st \in {"START_RECORD", "START_FIELD"} ->
             IF c = "'" THEN [q EXCEPT !.st = "IN_QUOTED_FIELD"]
             ELSE IF c = " " THEN [q EXCEPT !.st = "START_FIELD"]
             ELSE IF c = "," THEN [st |-> "START_FIELD", fld |-> <<>>, out |-> Append(q.out, q.fld)]
             ELSE [q EXCEPT !.st = "IN_FIELD", !.fld = Append(q.fld, c)]
      [] q.st = "IN_FIELD" ->
             IF c = "," THEN [st |-> "START_FIELD", fld |-> <<>>, out |-> Append(q.out, q.fld)]
             ELSE [q EXCEPT !.fld = Append(q.fld, c)]
      [] q.st = "IN_QUOTED_FIELD" ->
             IF c = "'" THEN [q EXCEPT !.st = "QUOTE_IN_QUOTED_FIELD"]
             ELSE [q EXCEPT !.fld = Append(q.fld, c)]
      [] q.st = "QUOTE_IN_QUOTED_FIELD" ->
             IF c = "'" THEN [q EXCEPT !.st = "IN_QUOTED_FIELD", !.fld = Append(q.fld, c)]
             ELSE IF c = "," THEN [st |-> "START_FIELD", fld |-> <<>>, out |-> Append(q.out, q.fld)]
             ELSE [q EXCEPT !.st = "IN_FIELD", !.fld = Append(q.fld, c)]

CsvStates == {"START_RECORD", "START_FIELD", "IN_FIELD", "IN_QUOTED_FIELD", "QUOTE_IN_QUOTED_FIELD"}

\* the automaton run over s[lo..hi] from q: the left half first, then the
\* right half from the state the left half ends in (halving keeps the
\* evaluation shallow)
RECURSIVE CsvFold(_, _, _, _)
CsvFold(q, s, lo, hi) ==
    IF lo > hi THEN q
    ELSE IF lo = hi THEN CsvStep(q, s[lo])
    ELSE LET mid  == (lo + hi) \div 2
             left == CsvFold(q, s, lo, mid)
         IN  IF left.st \in CsvStates THEN CsvFold(left, s, mid + 1, hi) ELSE left

\* next(reader): the fields of the one line; at the end of the input the field
\* being read is saved, an unterminated quoted one too
CsvSplit(tup) ==
    LET q == CsvFold([st |-> "START_RECORD", fld |-> <<>>, out |-> <<>>], tup, 1, Len(tup))
    IN  IF q.st = "START_RECORD" THEN q.out ELSE Append(q.out, q.fld)

\* pad with None or truncate to the number of columns
PadOrTruncate(vals, k) ==
    [i \in 1..k |-> IF i <= Len(vals) THEN vals[i] ELSE None]

\* dict(zip(cols, parsed)): a later column of the same name wins
ZipRow(cols, vals) ==
    [c \in {cols[i] : i \in DOMAIN cols} |->
        vals[CHOOSE i \in DOMAIN cols :
                 cols[i] = c /\ \A j \in DOMAIN cols : cols[j] = c => j <= i]]

ParseTuple(cols, tup) ==
    LET fields == CsvSplit(tup)
        vals   == [i \in DOMAIN fields |-> ConvertSqlValue(fields[i])]
    IN  ZipRow(cols, PadOrTruncate(vals, Len(cols)))

ParseStatement(stmt) ==
    IF ~HasTerminator(stmt.text) THEN <<>>
    ELSE LET tuples == FindTuples(ValuesRaw(stmt.text), 1)
         IN  [i \in DOMAIN tuples |-> ParseTuple(stmt.cols, tuples[i])]

\* the rows of every statement of the dump that inserts into the table
RECURSIVE ParseInsertBlocks(_, _)
ParseInsertBlocks(sql, table) ==
    IF sql = <<>> THEN <<>>
    ELSE (IF sql[1].table = table THEN ParseStatement(sql[1]) ELSE <<>>)
             \o ParseInsertBlocks(Tail(sql), table)

----------------------------------------------------------------------------
(* Tables.  A row is a function from column names to cells; a cell of an   *)
(* integer column is an integer or NULL, a cell of a string column a       *)
(* string or NA.  A table is a sequence of rows; a DataFrame is its column *)
(* names in order and its rows.                                            *)

\* None / NaN in an integer column, and None as an optional integer argument
NULL == -999

\* None / NaN in a string column
NA == "<NA>"

SeqToSet(s) == {s[i] : i \in DOMAIN s}

known ==
    <<"polling_unit_uniqueid", "polling_unit_name", "polling_unit_number", "ward_id",
      "lga_id", "ward_name", "lga_name", "state_id", "state_name">>

StringColumns ==
    {"polling_unit_name", "polling_unit_number", "ward_name", "lga_name", "state_name"}

Null(col) == IF col \in StringColumns THEN NA ELSE NULL

\* pd.DataFrame(): no columns, no rows
EmptyFrame == [columns |-> <<>>, rows |-> <<>>]

\* the variables of the tables, in a specification that does not use them
TablesIdle ==
    /\ dump = [polling_unit |-> EmptyFrame, ward |-> EmptyFrame, lga |-> EmptyFrame,
               announced_pu_results |-> EmptyFrame, state |-> EmptyFrame]
    /\ DF = EmptyFrame
    /\ error = ""
    /\ mapping = <<>>
    /\ added = <<>>
    /\ query = <<>>

\* the cache without an entry
NoEntry == [hit |-> FALSE, value |-> EmptyFrame]

\* the variables of the application's session, in a specification without it
SessionIdle ==
    /\ cached = NoEntry
    /\ appended = <<>>

\* the variables of the parser, in a specification that does not use them
ParserIdle ==
    /\ token = <<>>
    /\ converted = None
    /\ pu_row = <<>>
    /\ sql_text = <<>>
    /\ parsed = <<>>

\* Python's order on the strings the model sorts (code point by code point)
CodePointOrder ==
    <<"10", "25", "APC", "Aniocha North", "Aniocha South", "Bayelsa", "Bomadi",
      "Delta", "Delta State", "PDP", "State 10", "State 25", "Ward A", "Ward B",
      "Ward C">>

Rank(name) == CHOOSE i \in DOMAIN CodePointOrder : CodePointOrder[i] = name

\* sorted(names)
RECURSIVE Sorted(_)
Sorted(names) ==
    IF names = {} THEN <<>>
    ELSE LET least == CHOOSE a \in names : \A b \in names : Rank(a) <= Rank(b)
         IN  <<least>> \o Sorted(names \ {least})

\* sorted(ids) of integers
RECURSIVE SortedInts(_)
SortedInts(ids) ==
    IF ids = {} THEN <<>>
    ELSE LET least == CHOOSE a \in ids : \A b \in ids : a <= b
         IN  <<least>> \o SortedInts(ids \ {least})

\* a row with the cells of more laid over it
Extend(row, more) ==
    [c \in DOMAIN row \cup DOMAIN more |-> IF c \in DOMAIN more THEN more[c] ELSE row[c]]

\* left.merge(right[cols], on=key, how='left'): every left row in order, once
\* per right row with its key (in the right table's order), once with nulls
\* when there is none
RECURSIVE LeftMerge(_, _, _, _)
LeftMerge(left, right, key, cols) ==
    IF left = <<>> THEN <<>>
    ELSE LET l       == left[1]
             matches == SelectSeq(right, LAMBDA r : r[key] = l[key])
             joined  ==
                 IF matches = <<>>
                 THEN <<Extend(l, [c \in cols \ {key} |-> Null(c)])>>
                 ELSE [i \in DOMAIN matches |->
                          Extend(l, [c \in cols \ {key} |-> matches[i][c]])]
         IN  joined \o LeftMerge(Tail(left), right, key, cols)

----------------------------------------------------------------------------
(* src/data.py: _load_state_mapping *)

\* 'id' in c.lower() and 'name' in c.lower(), of the column names the model uses
ContainsId(c) == c \in {"state_id", "id", "lga_id", "ward_id"}
ContainsName(c) == c \in {"state_name", "name", "capital_name"}

\* the last column among the passing ones, NA when there is none
LastColumn(columns, passing) ==
    LET hits == {i \in DOMAIN columns : columns[i] \in passing}
    IN  IF hits = {} THEN NA
        ELSE columns[CHOOSE i \in hits : \A j \in hits : j <= i]

\* {int(r[id_col]): r[name_col] for _, r in table.iterrows()}: the last row of
\* an id wins
MappingOf(rows, id_col, name_col) ==
    [k \in {rows[i][id_col] : i \in DOMAIN rows} |->
        rows[CHOOSE i \in DOMAIN rows :
                 /\ rows[i][id_col] = k
                 /\ \A j \in DOMAIN rows : rows[j][id_col] = k => j <= i][name_col]]

\* the names 'State <id>' that the fallback makes
StateLabel(sid) == "State " \o ToString(sid)

\* the fallback of _load_state_mapping: the state ids of the lga table, then the
\* override of id 25
FallbackMapping(lga) ==
    LET ids == IF lga.rows # <<>> /\ "state_id" \in SeqToSet(lga.columns)
               THEN {lga.rows[i]["state_id"] : i \in DOMAIN lga.rows} \ {NULL}
               ELSE {}
    IN  [k \in ids \cup {25} |-> IF k = 25 THEN "Delta State" ELSE StateLabel(k)]

\* _load_state_mapping(sql_path, mapping_csv, mapping_dict).  mapping_dict is a
\* function (<<>> for None or {}), mapping_csv a table (EmptyFrame with
\* given = FALSE for None).
LoadStateMapping(tables, mapping_csv, mapping_dict) ==
    IF DOMAIN mapping_dict # {} THEN mapping_dict
    ELSE IF /\ mapping_csv.given
            /\ "state_id" \in SeqToSet(mapping_csv.columns)
            /\ "state_name" \in SeqToSet(mapping_csv.columns)
    THEN MappingOf(mapping_csv.rows, "state_id", "state_name")
    ELSE LET state_table == tables.state
             id_col   == LastColumn(state_table.columns,
                                   {c \in SeqToSet(state_table.columns) : ContainsId(c)})
             name_col == LastColumn(state_table.columns,
                                   {c \in SeqToSet(state_table.columns) : ContainsName(c)})
         IN  IF state_table.rows # <<>> /\ id_col # NA /\ name_col # NA
             THEN MappingOf(state_table.rows, id_col, name_col)
             ELSE FallbackMapping(tables.lga)

----------------------------------------------------------------------------
(* src/data.py: build_polling_unit_results_df *)

\* the polling-unit identifiers and the parties of the tally rows
PivotIndex(ann) == {ann[i]["polling_unit_uniqueid"] : i \in DOMAIN ann}
PartyColumns(ann) == {ann[i]["party_abbreviation"] : i \in DOMAIN ann}

\* aggfunc='sum' over the tally rows of polling unit u and party p, in order
RECURSIVE SumScores(_, _, _)
SumScores(ann, u, p) ==
    IF ann = <<>> THEN 0
    ELSE (IF ann[1]["polling_unit_uniqueid"] = u /\ ann[1]["party_abbreviation"] = p
          THEN ann[1]["party_score"] ELSE 0)
         + SumScores(Tail(ann), u, p)

\* aggfunc='last': a later row of the same pair overwrites the earlier ones
LastScore(ann, u, p) ==
    LET at == {i \in DOMAIN ann :
                  ann[i]["polling_unit_uniqueid"] = u /\ ann[i]["party_abbreviation"] = p}
    IN  IF at = {} THEN 0
        ELSE ann[CHOOSE i \in at : \A j \in at : j <= i]["party_score"]

\* one cell of a pivot made with aggfunc='last'
PivotCellLast(ann, u, p) == LastScore(ann, u, p)

\* one cell of the pivot: the aggregate of the pair, fill_value=0 for a pair
\* without rows
PivotCell(ann, u, p) ==
    IF \E i \in DOMAIN ann :
           ann[i]["polling_unit_uniqueid"] = u /\ ann[i]["party_abbreviation"] = p
    THEN SumScores(ann, u, p)
    ELSE 0

\* announced.pivot_table(index=..., columns=..., values=..., aggfunc='sum',
\* fill_value=0)
PartyPivot(ann) ==
    [u \in PivotIndex(ann) |-> [p \in PartyColumns(ann) |-> PivotCell(ann, u, p)]]

\* fillna(0) without the fill: the cell as it is
KeepNull(v) == v

\* fillna(0).astype(int) of one party cell
FillParty(v) == IF v = NULL THEN 0 ELSE v

\* pu.rename(columns={'uniqueid': 'polling_unit_uniqueid', ...})
RenamePU(row) ==
    [c \in (DOMAIN row \ {"uniqueid"}) \cup {"polling_unit_uniqueid"} |->
        IF c = "polling_unit_uniqueid" THEN row["uniqueid"] ELSE row[c]]

\* pu.merge(party_pivot, on='polling_unit_uniqueid', how='left'): the pivot has
\* one row per identifier, so every polling-unit row stays one row
MergePivot(rows, pivot, parties) ==
    [i \in DOMAIN rows |->
        Extend(rows[i],
               [p \in parties |->
                   IF rows[i]["polling_unit_uniqueid"] \in DOMAIN pivot
                   THEN pivot[rows[i]["polling_unit_uniqueid"]][p]
                   ELSE NULL])]

HasColumns(frame, cols) == frame.rows # <<>> /\ cols \subseteq SeqToSet(frame.columns)

\* the table assembled from non-empty polling_unit and announced_pu_results
Assemble(tables) ==
    LET ann     == tables.announced_pu_results.rows
        parties == PartyColumns(ann)
        pu      == [i \in DOMAIN tables.polling_unit.rows |-> RenamePU(tables.polling_unit.rows[i])]
        merged  == MergePivot(pu, PartyPivot(ann), parties)
        withWard ==
            IF HasColumns(tables.ward, {"ward_id", "ward_name"})
            THEN LeftMerge(merged, tables.ward.rows, "ward_id", {"ward_id", "ward_name"})
            ELSE merged
        hasLga  == HasColumns(tables.lga, {"lga_id", "lga_name"})
        withLga ==
            IF hasLga
            THEN LeftMerge(withWard, tables.lga.rows, "lga_id", {"lga_id", "lga_name", "state_id"})
            ELSE withWard
        state_mapping ==
            LoadStateMapping(tables, [given |-> FALSE, columns |-> <<>>, rows |-> <<>>], <<>>)
        withState ==
            [i \in DOMAIN withLga |->
                Extend(withLga[i],
                       [c \in {"state_name"} |->
                           IF hasLga /\ withLga[i]["state_id"] \in DOMAIN state_mapping
                           THEN state_mapping[withLga[i]["state_id"]]
                           ELSE NA])]
        present    == IF withState = <<>> THEN {} ELSE DOMAIN withState[1]
        final_cols == SelectSeq(known, LAMBDA c : c \in present) \o Sorted(parties)
    IN  [columns |-> final_cols,
         rows    |-> [i \in DOMAIN withState |->
                         [c \in SeqToSet(final_cols) |->
                             IF c \in parties THEN FillParty(withState[i][c])
                             ELSE withState[i][c]]]]

PuMissing == "polling_unit table not found or empty in SQL file"
AnnouncedMissing == "announced_pu_results table not found or empty in SQL file"

\* a build that also refuses a dump without ward or lga rows
BuildStrict(tables) ==
    IF tables.polling_unit.rows = <<>> THEN [error |-> PuMissing, frame |-> EmptyFrame]
    ELSE IF tables.announced_pu_results.rows = <<>>
    THEN [error |-> AnnouncedMissing, frame |-> EmptyFrame]
    ELSE IF tables.ward.rows = <<>> \/ tables.lga.rows = <<>>
    THEN [error |-> "ward or lga table not found or empty in SQL file", frame |-> EmptyFrame]
    ELSE [error |-> "", frame |-> Assemble(tables)]

\* build_polling_unit_results_df(sql_path): the ValueError raised, or the table
BuildPollingUnitResultsDf(tables) ==
    IF tables.polling_unit.rows = <<>> THEN [error |-> PuMissing, frame |-> EmptyFrame]
    ELSE IF tables.announced_pu_results.rows = <<>>
    THEN [error |-> AnnouncedMissing, frame |-> EmptyFrame]
    ELSE [error |-> "", frame |-> Assemble(tables)]

----------------------------------------------------------------------------
(* Dumps *)

PUColumns == <<"uniqueid", "ward_id", "lga_id", "polling_unit_number", "polling_unit_name">>

\* the i-th polling unit of a dump: wards 1 and 2 in turn, two units to an LGA
PURow(i) ==
    [uniqueid |-> i,
     ward_id |-> ((i - 1) % 2) + 1,
     lga_id |-> ((i - 1) \div 2) + 1,
     polling_unit_number |-> "DT" \o ToString(i),
     polling_unit_name |-> "Unit " \o ToString(i)]

PUTable(k) == [columns |-> PUColumns, rows |-> [i \in 1..k |-> PURow(i)]]

Frame(columns, rows) == [columns |-> IF rows = <<>> THEN <<>> ELSE columns, rows |-> rows]

WardRow(id, name) == [ward_id |-> id, ward_name |-> name]

WardColumns == <<"ward_id", "ward_name">>
LgaColumns == <<"lga_id", "lga_name", "state_id">>
StateColumns == <<"state_id", "state_name">>

NoTable == Frame(<<>>, <<>>)

\* one ward row per ward_id
WardsPlain == Frame(WardColumns, <<WardRow(1, "Ward A"), WardRow(2, "Ward B")>>)

\* ward_id 1 used by two wards: the identifier is only unique within an LGA
WardsShared ==
    Frame(WardColumns, <<WardRow(1, "Ward A"), WardRow(1, "Ward C"), WardRow(2, "Ward B")>>)

\* ward 2 absent
WardsPartial == Frame(WardColumns, <<WardRow(1, "Ward A")>>)

WardTables == {NoTable, WardsPlain, WardsShared, WardsPartial}

LgaRow(id, name, sid) == [lga_id |-> id, lga_name |-> name, state_id |-> sid]

\* LGAs 1 and 2, in states 25 and 10
LgasPlain == Frame(LgaColumns, <<LgaRow(1, "Aniocha North", 25), LgaRow(2, "Bomadi", 10)>>)

\* LGA 2 absent
LgasPartial == Frame(LgaColumns, <<LgaRow(1, "Aniocha North", 25)>>)

\* LGA 2 with a null state_id
LgasNullState ==
    Frame(LgaColumns, <<LgaRow(1, "Aniocha North", 25), LgaRow(2, "Aniocha South", NULL)>>)

LgaTables == {NoTable, LgasPlain, LgasPartial, LgasNullState}

StateRow(id, name) == [state_id |-> id, state_name |-> name]

StatesBoth == Frame(StateColumns, <<StateRow(25, "Delta"), StateRow(10, "Bayelsa")>>)
StatesOne == Frame(StateColumns, <<StateRow(10, "Bayelsa")>>)

StateTables == {NoTable, StatesBoth, StatesOne}

\* the ward, lga and state tables that the dumps of the assembler's runs hold
Hierarchies ==
    {<<NoTable, NoTable, NoTable>>,
     <<WardsPlain, NoTable, NoTable>>,
     <<NoTable, LgasNullState, NoTable>>,
     <<WardsPlain, LgasPlain, NoTable>>,
     <<WardsShared, LgasPlain, StatesBoth>>,
     <<WardsPartial, LgasPartial, StatesOne>>}

TallyColumns == <<"polling_unit_uniqueid", "party_abbreviation", "party_score">>

TallyRows ==
    [polling_unit_uniqueid : {1, 2}, party_abbreviation : {"APC", "PDP"},
     party_score : {-5, 30, 120}]

TallyTables ==
    {Frame(TallyColumns, rows) : rows \in UNION {[1..k -> TallyRows] : k \in 0..MaxTally}}

----------------------------------------------------------------------------
(* The Result Assembler on every dump of the bounds *)

InitBuild ==
    /\ pc = "dump"
    /\ \E k \in 0..MaxPU, h \in Hierarchies, a \in TallyTables :
           dump = [polling_unit |-> PUTable(k), ward |-> h[1], lga |-> h[2],
                   announced_pu_results |-> a, state |-> h[3]]
    /\ DF = EmptyFrame
    /\ error = ""
    /\ mapping = <<>>
    /\ added = <<>>
    /\ query = <<>>
    /\ ParserIdle
    /\ SessionIdle

\* DF = build_polling_unit_results_df("bincom_test.sql")
Build ==
    /\ pc = "dump"
    /\ LET r == BuildPollingUnitResultsDf(dump)
       IN  /\ DF' = r.frame
           /\ error' = r.error
    /\ pc' = "built"
    /\ UNCHANGED <<dump, mapping, added, query>>
    /\ UNCHANGED parseVars
    /\ UNCHANGED sessionVars

NextBuild == Build

SpecBuild == InitBuild /\ [][NextBuild]_vars

----------------------------------------------------------------------------
(* Claims C1, C3 and C5 *)

\* C1: no two rows of the Assembled Table have the same
\* polling_unit_uniqueid.
C1_UniqueIds ==
    \A i, j \in DOMAIN DF.rows :
        i # j => DF.rows[i]["polling_unit_uniqueid"] # DF.rows[j]["polling_unit_uniqueid"]

\* the tally rows of polling unit u and party p
TallyRowsOf(u, p) ==
    {i \in DOMAIN dump.announced_pu_results.rows :
        /\ dump.announced_pu_results.rows[i]["polling_unit_uniqueid"] = u
        /\ dump.announced_pu_results.rows[i]["party_abbreviation"] = p}

RECURSIVE ScoreTotal(_)
ScoreTotal(at) ==
    IF at = {} THEN 0
    ELSE LET i == CHOOSE i \in at : TRUE
         IN  dump.announced_pu_results.rows[i]["party_score"] + ScoreTotal(at \ {i})

\* C3: for every polling unit of the polling_unit table and every party of the
\* tally table, the Assembled Table has a row of that unit whose column of that
\* party is the sum of the party's scores for the unit (0 without tally rows).
C3_TallySums ==
    pc = "built" /\ error = "" =>
        \A k \in DOMAIN dump.polling_unit.rows :
            \A a \in DOMAIN dump.announced_pu_results.rows :
                LET u == dump.polling_unit.rows[k]["uniqueid"]
                    p == dump.announced_pu_results.rows[a]["party_abbreviation"]
                IN  \E i \in DOMAIN DF.rows :
                        /\ DF.rows[i]["polling_unit_uniqueid"] = u
                        /\ p \in DOMAIN DF.rows[i]
                        /\ DF.rows[i][p] = ScoreTotal(TallyRowsOf(u, p))

\* APC scores 120 and 30 of unit 1 are built into 150, and unit 2, without
\* tally rows, has its row with 0
C3_Witness ==
    /\ pc = "built"
    /\ [i \in DOMAIN dump.announced_pu_results.rows |->
           dump.announced_pu_results.rows[i]["party_score"]] = <<120, 30>>
    /\ \A i \in DOMAIN dump.announced_pu_results.rows :
           /\ dump.announced_pu_results.rows[i]["polling_unit_uniqueid"] = 1
           /\ dump.announced_pu_results.rows[i]["party_abbreviation"] = "APC"
    /\ \E i, j \in DOMAIN DF.rows :
           /\ DF.rows[i]["polling_unit_uniqueid"] = 1 /\ DF.rows[i]["APC"] = 150
           /\ DF.rows[j]["polling_unit_uniqueid"] = 2 /\ DF.rows[j]["APC"] = 0

\* C5: the build fails, with no table, exactly when the polling_unit or the
\* announced_pu_results table is empty; a missing ward, lga or state table
\* never makes it fail.
C5_MandatoryTables ==
    pc = "built" =>
        /\ error # "" <=>
               (dump.polling_unit.rows = <<>> \/ dump.announced_pu_results.rows = <<>>)
        /\ error # "" => error \in {PuMissing, AnnouncedMissing} /\ DF = EmptyFrame
        /\ error = "" => Len(DF.rows) >= Len(dump.polling_unit.rows)

\* a dump without ward, lga and state tables has been built into a table
C5_Witness ==
    /\ pc = "built"
    /\ dump.ward.rows = <<>> /\ dump.lga.rows = <<>> /\ dump.state.rows = <<>>
    /\ error = ""
    /\ DF.rows # <<>>

----------------------------------------------------------------------------
(* The Hierarchy Resolver on every resolution path *)

\* a state table without an identifier column
StatesNoId == Frame(<<"state_name">>, <<[state_name |-> "Delta"]>>)

\* mapping_dict as a caller may pass it: None, and three mappings
MappingDicts ==
    {<<>>, (25 :> "Delta State"), (10 :> "Bayelsa"), (10 :> "Bayelsa") @@ (25 :> "Delta")}

NoCsv == [given |-> FALSE, columns |-> <<>>, rows |-> <<>>]

\* mapping_csv: None, a file with both columns, a file with other columns
MappingCsvs ==
    {NoCsv,
     [given |-> TRUE, columns |-> StateColumns,
      rows |-> <<StateRow(10, "Bayelsa"), StateRow(25, "Delta")>>],
     [given |-> TRUE, columns |-> <<"id", "label">>, rows |-> <<[id |-> 25, label |-> "Delta"]>>]}

InitResolve ==
    /\ pc = "dump"
    /\ \E l \in LgaTables, s \in StateTables \cup {StatesNoId} :
           dump = [polling_unit |-> NoTable, ward |-> NoTable, lga |-> l,
                   announced_pu_results |-> NoTable, state |-> s]
    /\ DF = EmptyFrame
    /\ error = ""
    /\ mapping = <<>>
    /\ added = <<>>
    /\ query = <<>>
    /\ ParserIdle
    /\ SessionIdle

\* _load_state_mapping(sql_path, mapping_csv, mapping_dict)
Resolve ==
    /\ pc = "dump"
    /\ \E csv \in MappingCsvs, dict \in MappingDicts :
           mapping' = [mapping_csv |-> csv, mapping_dict |-> dict,
                       result |-> LoadStateMapping(dump, csv, dict)]
    /\ pc' = "resolved"
    /\ UNCHANGED <<dump, DF, error, added, query>>
    /\ UNCHANGED parseVars
    /\ UNCHANGED sessionVars

NextResolve == Resolve

SpecResolve == InitResolve /\ [][NextResolve]_vars

----------------------------------------------------------------------------
(* Claim C6 *)

\* C6: whichever path produced it, the Region Mapping returned maps id 25 to
\* "Delta State".
C6_DeltaOverride ==
    pc = "resolved" =>
        /\ 25 \in DOMAIN mapping.result
        /\ mapping.result[25] = "Delta State"

----------------------------------------------------------------------------
(* add_polling_unit_to_df, and the table under build and additions *)

\* the party columns of a table: those that are not among the known columns
PartyCols(columns) == {c \in SeqToSet(columns) : c \notin SeqToSet(known)}

\* the new row: a key of pu_row gives its value, a known column without key is
\* null, any other column (a party) is 0
NewRow(columns, row) ==
    [col \in SeqToSet(columns) |->
        IF col \in DOMAIN row THEN row[col]
        ELSE IF col \in SeqToSet(known) THEN Null(col)
        ELSE 0]

\* the new row put in front of the table's rows
AddPollingUnitFirst(df, row) ==
    [columns |-> df.columns, rows |-> <<NewRow(df.columns, row)>> \o df.rows]

\* add_polling_unit_to_df(df, pu_row): the row appended, then every party
\* column through fillna(0).astype(int)
AddPollingUnitToDf(df, row) ==
    LET rows == Append(df.rows, NewRow(df.columns, row))
    IN  [columns |-> df.columns,
         rows |-> [i \in DOMAIN rows |->
                      [c \in DOMAIN rows[i] |->
                          IF c \in PartyCols(df.columns) THEN FillParty(rows[i][c])
                          ELSE rows[i][c]]]]

MaxAdds == 2

\* the polling unit the form of the application submits (its other keys are
\* not columns of the table)
FormRow(uid) ==
    [polling_unit_uniqueid |-> uid, polling_unit_number |-> "DT9",
     polling_unit_name |-> "Unit 9", ward_id |-> 1, lga_id |-> 1,
     ward_name |-> "Ward A", lga_name |-> "Aniocha North", state_id |-> 25,
     state_name |-> "Delta State"]

\* rows a caller passes: the form's row, a row with a party value (null,
\* negative, positive), a row with the identifier only
PuRows ==
    {FormRow(9001), FormRow(9002),
     FormRow(9001) @@ [APC |-> NULL],
     FormRow(9001) @@ [APC |-> -5],
     FormRow(9002) @@ [APC |-> 30],
     [polling_unit_uniqueid |-> 9003]}

MutateTallies ==
    {Frame(TallyColumns, <<[polling_unit_uniqueid |-> 1, party_abbreviation |-> "APC", party_score |-> 120],
                           [polling_unit_uniqueid |-> 1, party_abbreviation |-> "PDP", party_score |-> 30]>>),
     Frame(TallyColumns, <<[polling_unit_uniqueid |-> 1, party_abbreviation |-> "APC", party_score |-> 120],
                           [polling_unit_uniqueid |-> 1, party_abbreviation |-> "APC", party_score |-> 30]>>),
     Frame(TallyColumns, <<[polling_unit_uniqueid |-> 2, party_abbreviation |-> "APC", party_score |-> -5]>>),
     Frame(TallyColumns, <<[polling_unit_uniqueid |-> 7, party_abbreviation |-> "PDP", party_score |-> 30]>>)}

InitMutate ==
    /\ pc = "dump"
    /\ \E k \in 1..MaxPU, a \in MutateTallies,
          h \in {<<NoTable, NoTable, NoTable>>, <<WardsPlain, LgasPlain, StatesBoth>>} :
           dump = [polling_unit |-> PUTable(k), ward |-> h[1], lga |-> h[2],
                   announced_pu_results |-> a, state |-> h[3]]
    /\ DF = EmptyFrame
    /\ error = ""
    /\ mapping = <<>>
    /\ added = <<>>
    /\ query = <<>>
    /\ ParserIdle
    /\ SessionIdle

\* DF = add_polling_unit_to_df(DF, pu_row)
AddRow ==
    /\ pc = "built"
    /\ error = ""
    /\ Len(added) < MaxAdds
    /\ \E row \in PuRows :
           /\ DF' = AddPollingUnitToDf(DF, row)
           /\ added' = Append(added, row)
    /\ UNCHANGED <<pc, dump, error, mapping, query>>
    /\ UNCHANGED parseVars
    /\ UNCHANGED sessionVars

NextMutate == Build \/ AddRow

SpecMutate == InitMutate /\ [][NextMutate]_vars

----------------------------------------------------------------------------
(* Claim C4 *)

\* no negative score in the dump and no negative party value passed to an add
NoNegativeInput ==
    /\ \A i \in DOMAIN dump.announced_pu_results.rows :
           dump.announced_pu_results.rows[i]["party_score"] >= 0
    /\ \A i \in DOMAIN added :
           \A c \in DOMAIN added[i] :
               c \notin SeqToSet(known) => (added[i][c] = NULL \/ added[i][c] >= 0)

\* C4 as stated: after the build and after any number of additions, every
\* party column value of every row is a non-negative integer, never null.
C4_NonNegative ==
    \A i \in DOMAIN DF.rows :
        \A c \in PartyCols(DF.columns) :
            DF.rows[i][c] \in Nat

\* C4, amended: after the build and after any number of additions, every party
\* column value of every row is an integer and never null; it is non-negative
\* when the dump holds no negative score and no addition supplied a negative
\* party value.
C4_PartyValues ==
    \A i \in DOMAIN DF.rows :
        \A c \in PartyCols(DF.columns) :
            /\ DF.rows[i][c] \in Int
            /\ DF.rows[i][c] # NULL
            /\ NoNegativeInput => DF.rows[i][c] >= 0

\* a table built from non-negative tallies, with a unit without tally rows, to
\* which a row with a null party value has been added: both read 0
C4_Witness ==
    /\ pc = "built"
    /\ NoNegativeInput
    /\ Len(added) >= 1
    /\ added[Len(added)] = FormRow(9001) @@ [APC |-> NULL]
    /\ Len(dump.polling_unit.rows) = 2
    /\ TallyRowsOf(2, "APC") = {}
    /\ "APC" \in PartyCols(DF.columns)
    /\ DF.rows[Len(DF.rows)]["APC"] = 0
    /\ \E i \in DOMAIN DF.rows :
           DF.rows[i]["polling_unit_uniqueid"] = 2 /\ DF.rows[i]["APC"] = 0

----------------------------------------------------------------------------
(* The listings and filter_results *)

\* df[[id_col, name_col]] as (identifier, name) pairs, row by row
Pairs(rows, id_col, name_col) ==
    [i \in DOMAIN rows |-> [id |-> rows[i][id_col], name |-> rows[i][name_col]]]

\* drop_duplicates(): the first occurrence of every pair, in order
RECURSIVE DropDuplicates(_)
DropDuplicates(s) ==
    IF s = <<>> THEN <<>>
    ELSE LET front == DropDuplicates(SubSeq(s, 1, Len(s) - 1))
             last  == s[Len(s)]
         IN  IF last \in SeqToSet(front) THEN front ELSE Append(front, last)

\* dropna(subset=[id_col])
DropNullIds(s) == SelectSeq(s, LAMBDA p : p.id # NULL)

\* the place of a name in sort_values: by code points, nulls last
NameRank(name) == IF name = NA THEN Len(CodePointOrder) + 1 ELSE Rank(name)

\* sort_values(name_col): ascending, equal names in their order
RECURSIVE SortByName(_)
SortByName(s) ==
    IF s = <<>> THEN <<>>
    ELSE LET i == CHOOSE i \in DOMAIN s :
                      /\ \A j \in DOMAIN s : NameRank(s[i].name) <= NameRank(s[j].name)
                      /\ \A j \in 1..(i - 1) : NameRank(s[j].name) # NameRank(s[i].name)
         IN  <<s[i]>> \o SortByName(SubSeq(s, 1, i - 1) \o SubSeq(s, i + 1, Len(s)))

\* fillna(df_states['state_id'].astype(str)) of the names
FillNames(s) ==
    [i \in DOMAIN s |-> [id |-> s[i].id,
                         name |-> IF s[i].name = NA THEN ToString(s[i].id) ELSE s[i].name]]


KeyError == "KeyError"

\* get_states(df)
GetStates(df) ==
    LET cols == SeqToSet(df.columns)
    IN  IF "state_id" \notin cols /\ "state_name" \notin cols
        THEN [error |-> "", pairs |-> <<>>]
        ELSE IF ~({"state_id", "state_name"} \subseteq cols)
        THEN [error |-> KeyError, pairs |-> <<>>]
        ELSE [error |-> "",
              pairs |-> SortByName(FillNames(DropNullIds(
                            DropDuplicates(Pairs(df.rows, "state_id", "state_name")))))]

\* no selection: every row
KeepAll(rows, col, v) == rows

\* df[df[col] == v]
Keep(rows, col, v) == SelectSeq(rows, LAMBDA r : r[col] = v)

\* a child listing that does not look at its parent: the pairs of every row
ChildListingUnscoped(df, parent_col, parent, id_col, name_col) ==
    LET cols == SeqToSet(df.columns)
    IN  IF ~({id_col, name_col} \subseteq cols)
        THEN [error |-> "KeyError", pairs |-> <<>>]
        ELSE [error |-> "",
              pairs |-> SortByName(DropNullIds(
                            DropDuplicates(Pairs(df.rows, id_col, name_col))))]

\* the body shared by get_lgas_by_state and get_wards_by_lga: the rows of the
\* parent when one is given, their pairs deduplicated, without null
\* identifiers, sorted by name
ChildListing(df, parent_col, parent, id_col, name_col) ==
    LET cols == SeqToSet(df.columns)
    IN  IF (parent # NULL /\ parent_col \notin cols) \/ ~({id_col, name_col} \subseteq cols)
        THEN [error |-> KeyError, pairs |-> <<>>]
        ELSE LET rows == IF parent = NULL THEN df.rows ELSE Keep(df.rows, parent_col, parent)
             IN  [error |-> "",
                  pairs |-> SortByName(DropNullIds(
                                DropDuplicates(Pairs(rows, id_col, name_col))))]

\* get_lgas_by_state(df, state_id)
GetLgasByState(df, state_id) == ChildListing(df, "state_id", state_id, "lga_id", "lga_name")

\* get_wards_by_lga(df, lga_id)
GetWardsByLga(df, lga_id) == ChildListing(df, "lga_id", lga_id, "ward_id", "ward_name")

\* one step of filter_results: the predicate applied when it is supplied and
\* the table has its column
FilterStep(df, rows, col, v) ==
    IF v # NULL /\ col \in SeqToSet(df.columns) THEN Keep(rows, col, v) ELSE rows

\* filter_results(df, state_id, lga_id, ward_id, polling_unit_id)
FilterResults(df, state_id, lga_id, ward_id, polling_unit_id) ==
    [columns |-> df.columns,
     rows |-> FilterStep(df,
                  FilterStep(df,
                      FilterStep(df,
                          FilterStep(df, df.rows, "state_id", state_id),
                          "lga_id", lga_id),
                      "ward_id", ward_id),
                  "polling_unit_uniqueid", polling_unit_id)]

\* the tallies of the dumps that the queries run on
QueryTallies ==
    Frame(TallyColumns, <<[polling_unit_uniqueid |-> 1, party_abbreviation |-> "APC", party_score |-> 120],
                          [polling_unit_uniqueid |-> 2, party_abbreviation |-> "PDP", party_score |-> 30]>>)

InitQuery ==
    /\ pc = "dump"
    /\ \E k \in 1..(MaxPU + 1), w \in WardTables, l \in LgaTables, s \in StateTables :
           dump = [polling_unit |-> PUTable(k), ward |-> w, lga |-> l,
                   announced_pu_results |-> QueryTallies, state |-> s]
    /\ DF = EmptyFrame
    /\ error = ""
    /\ mapping = <<>>
    /\ added = <<>>
    /\ query = <<>>
    /\ ParserIdle
    /\ SessionIdle

\* the arguments a caller passes; NULL stands for None, 44 matches no row
StateArgs == {NULL, 10, 25, 44}
LgaArgs == {NULL, 1, 2}
WardArgs == {NULL, 1, 44}
UnitArgs == {NULL, 1, 2}

Queried(op, args, err, columns, rows, pairs) ==
    [op |-> op, args |-> args, input |-> DF, error |-> err, columns |-> columns,
     rows |-> rows, pairs |-> pairs]

\* filter_results(DF, state_id, lga_id, ward_id, polling_unit_id)
Filter ==
    /\ pc = "built"
    /\ error = ""
    /\ \E sid \in StateArgs, lid \in LgaArgs, wid \in WardArgs, uid \in UnitArgs :
           LET out == FilterResults(DF, sid, lid, wid, uid)
           IN  query' = Queried("filter", <<sid, lid, wid, uid>>, "", out.columns, out.rows, <<>>)
    /\ pc' = "queried"
    /\ UNCHANGED <<dump, DF, error, mapping, added>>
    /\ UNCHANGED parseVars
    /\ UNCHANGED sessionVars

\* get_states(DF)
ListStates ==
    /\ pc = "built"
    /\ error = ""
    /\ LET r == GetStates(DF)
       IN  query' = Queried("states", <<NULL>>, r.error, <<>>, <<>>, r.pairs)
    /\ pc' = "queried"
    /\ UNCHANGED <<dump, DF, error, mapping, added>>
    /\ UNCHANGED parseVars
    /\ UNCHANGED sessionVars

\* get_lgas_by_state(DF, state_id)
ListLgas ==
    /\ pc = "built"
    /\ error = ""
    /\ \E sid \in StateArgs :
           LET r == GetLgasByState(DF, sid)
           IN  query' = Queried("lgas", <<sid>>, r.error, <<>>, <<>>, r.pairs)
    /\ pc' = "queried"
    /\ UNCHANGED <<dump, DF, error, mapping, added>>
    /\ UNCHANGED parseVars
    /\ UNCHANGED sessionVars

\* get_wards_by_lga(DF, lga_id)
ListWards ==
    /\ pc = "built"
    /\ error = ""
    /\ \E lid \in LgaArgs :
           LET r == GetWardsByLga(DF, lid)
           IN  query' = Queried("wards", <<lid>>, r.error, <<>>, <<>>, r.pairs)
    /\ pc' = "queried"
    /\ UNCHANGED <<dump, DF, error, mapping, added>>
    /\ UNCHANGED parseVars
    /\ UNCHANGED sessionVars

\* the identifiers of a listing
Ids(pairs) == {pairs[i].id : i \in DOMAIN pairs}

\* DF[(DF['lga_id'] == lid) & (DF['ward_id'] == wid)]: the polling units of a
\* ward of an LGA
InScope(df, lid, wid) ==
    SelectSeq(df.rows, LAMBDA r : r["lga_id"] = lid /\ r["ward_id"] = wid)

\* the drill-down of the presentation layer and of the tests: the LGAs of a
\* state (or all), one of them, its wards, one of them, then
\* filter_results(DF, ward_id=wid)
ScopeWard ==
    /\ pc = "built"
    /\ error = ""
    /\ \E sid \in StateArgs :
           LET lgas == GetLgasByState(DF, sid)
           IN  /\ lgas.error = ""
               /\ \E lid \in Ids(lgas.pairs) :
                      LET wards == GetWardsByLga(DF, lid)
                      IN  /\ wards.error = ""
                          /\ \E wid \in Ids(wards.pairs) :
                                 LET out == FilterResults(DF, NULL, NULL, wid, NULL)
                                 IN  query' = Queried("ward scope", <<sid, lid, wid, NULL>>, "",
                                                      out.columns, out.rows, wards.pairs)
    /\ pc' = "queried"
    /\ UNCHANGED <<dump, DF, error, mapping, added>>
    /\ UNCHANGED parseVars
    /\ UNCHANGED sessionVars

\* the same drill-down, then one polling unit of the ward and
\* filter_results(DF, polling_unit_id=pu_id)
ScopeUnit ==
    /\ pc = "built"
    /\ error = ""
    /\ \E lid \in Ids(GetLgasByState(DF, NULL).pairs) :
           LET wards == GetWardsByLga(DF, lid)
           IN  /\ wards.error = ""
               /\ \E wid \in Ids(wards.pairs) :
                      \E pu_id \in Ids(DropDuplicates(Pairs(InScope(DF, lid, wid),
                                          "polling_unit_uniqueid", "polling_unit_name"))) :
                          LET out == FilterResults(DF, NULL, NULL, NULL, pu_id)
                          IN  query' = Queried("unit scope", <<NULL, lid, wid, pu_id>>, "",
                                               out.columns, out.rows, wards.pairs)
    /\ pc' = "queried"
    /\ UNCHANGED <<dump, DF, error, mapping, added>>
    /\ UNCHANGED parseVars
    /\ UNCHANGED sessionVars

NextQuery == Build \/ Filter \/ ListStates \/ ListLgas \/ ListWards \/ ScopeWard \/ ScopeUnit

SpecQuery == InitQuery /\ [][NextQuery]_vars

----------------------------------------------------------------------------
(* Claims C9 and C10 *)

FilterColumns == <<"state_id", "lga_id", "ward_id", "polling_unit_uniqueid">>

\* C9 as stated: the result is exactly the rows, in order, for which every
\* supplied predicate holds by integer equality on its column; the full table
\* without predicates; an empty table, no error, without a match; the input
\* unchanged.
C9_FilterExact ==
    pc = "queried" /\ query.op = "filter" =>
        /\ query.error = ""
        /\ query.input = DF
        /\ query.columns = DF.columns
        /\ query.rows =
               SelectSeq(DF.rows,
                   LAMBDA r : \A n \in 1..4 :
                       query.args[n] # NULL =>
                           /\ FilterColumns[n] \in DOMAIN r
                           /\ r[FilterColumns[n]] = query.args[n])

\* C9, amended: the result is exactly the rows, in order, for which every
\* supplied predicate whose column the table has holds by integer equality; a
\* supplied predicate whose column the table lacks is ignored; the full table
\* without predicates; an empty table, no error, without a match; the input
\* unchanged.
C9_FilterPresentColumns ==
    pc = "queried" /\ query.op = "filter" =>
        /\ query.error = ""
        /\ query.input = DF
        /\ query.columns = DF.columns
        /\ query.rows =
               SelectSeq(DF.rows,
                   LAMBDA r : \A n \in 1..4 :
                       (query.args[n] # NULL /\ FilterColumns[n] \in DOMAIN r) =>
                           r[FilterColumns[n]] = query.args[n])
        /\ (\A n \in 1..4 : query.args[n] = NULL) => query.rows = DF.rows

\* a filter by state 25 and ward 1 on a table with both columns kept some rows
\* and dropped others
C9_Witness ==
    /\ pc = "queried"
    /\ query.op = "filter"
    /\ query.args[1] = 25
    /\ query.args[3] = 1
    /\ {"state_id", "ward_id"} \subseteq SeqToSet(DF.columns)
    /\ Len(query.rows) > 0
    /\ Len(query.rows) < Len(DF.rows)

\* C10: a listing that returns holds deduplicated (identifier, name) pairs in
\* ascending order of name, none with a null identifier and none with a null
\* name (a null name reads as the stringified identifier) - for states, LGAs
\* and wards alike.
C10_Listings ==
    pc = "queried" /\ query.op \in {"states", "lgas", "wards"} /\ query.error = "" =>
        /\ \A i, j \in DOMAIN query.pairs : i # j => query.pairs[i] # query.pairs[j]
        /\ \A i, j \in DOMAIN query.pairs :
               i < j => NameRank(query.pairs[i].name) <= NameRank(query.pairs[j].name)
        /\ \A i \in DOMAIN query.pairs :
               /\ query.pairs[i].id # NULL
               /\ query.pairs[i].name # NA

----------------------------------------------------------------------------
(* Claim C11 *)

\* C11: every LGA id that get_lgas_by_state returns and every ward id that
\* get_wards_by_lga returns for that LGA occurs in a row of the table within
\* the given parent, so filter_results by the ward id, or by the uniqueid of a
\* polling unit of that LGA and ward, returns a non-empty table.
C11_ListingsAgreeWithFilter ==
    pc = "queried" /\ query.op \in {"ward scope", "unit scope"} =>
        /\ \E i \in DOMAIN DF.rows :
               /\ DF.rows[i]["lga_id"] = query.args[2]
               /\ DF.rows[i]["ward_id"] = query.args[3]
               /\ query.args[1] # NULL => DF.rows[i]["state_id"] = query.args[1]
        /\ query.rows # <<>>
        /\ query.op = "ward scope" =>
               \A i \in DOMAIN query.rows : query.rows[i]["ward_id"] = query.args[3]
        /\ query.op = "unit scope" =>
               \A i \in DOMAIN query.rows :
                   query.rows[i]["polling_unit_uniqueid"] = query.args[4]

\* the wards of LGA 2 of state 10 were listed on a table that also has LGA 1
\* with another ward, and the filter by the ward listed returned rows
C11_Witness ==
    /\ pc = "queried"
    /\ query.op = "ward scope"
    /\ query.args[1] = 10
    /\ query.args[2] = 2
    /\ Len(query.pairs) = 1
    /\ \E i \in DOMAIN DF.rows :
           DF.rows[i]["lga_id"] = 1 /\ DF.rows[i]["ward_id"] # query.args[3]
    /\ query.rows # <<>>

----------------------------------------------------------------------------
(* Claim C12 *)

\* C12: the table that add_polling_unit_to_df returns is the rows of its input,
\* unchanged and in order, followed by exactly one new row; the new row has
\* the polling_unit_uniqueid supplied, every other identity or hierarchy
\* column as supplied or null when not supplied, and 0 in every party column
\* not supplied. (Stated over the session: the table after n calls is the
\* built table followed by the n rows, in call order.)
C12_AddFrame ==
    pc = "built" /\ error = "" =>
        LET base == BuildPollingUnitResultsDf(dump).frame
            n    == Len(base.rows)
        IN  /\ DF.columns = base.columns
            /\ Len(DF.rows) = n + Len(added)
            /\ \A i \in 1..n : DF.rows[i] = base.rows[i]
            /\ \A k \in DOMAIN added :
                   LET new == DF.rows[n + k]
                   IN  /\ new["polling_unit_uniqueid"] = added[k]["polling_unit_uniqueid"]
                       /\ \A c \in SeqToSet(DF.columns) \cap SeqToSet(known) :
                              new[c] = IF c \in DOMAIN added[k] THEN added[k][c] ELSE Null(c)
                       /\ \A c \in PartyCols(DF.columns) :
                              c \notin DOMAIN added[k] => new[c] = 0

\* two rows were added to a table with a ward_id and an APC column, the
\* second with its identifier only: it reads null for the ward and 0 for APC
C12_Witness ==
    /\ pc = "built"
    /\ Len(added) = 2
    /\ Len(dump.polling_unit.rows) = 2
    /\ Len(DF.rows) = 4
    /\ added[2] = [polling_unit_uniqueid |-> 9003]
    /\ "APC" \in PartyCols(DF.columns)
    /\ DF.rows[4]["polling_unit_uniqueid"] = 9003
    /\ DF.rows[4]["ward_id"] = NULL
    /\ DF.rows[4]["APC"] = 0
    /\ DF.rows[3]["polling_unit_uniqueid"] = 9001

----------------------------------------------------------------------------
(* src/streamlit_app.py: the session. Every interaction runs the script from
   the top: DF = load_data(), then the page's function. *)

\* load_data() under st.cache_data: the cached value when there is one, else
\* the build of the dump as it is now
LoadData(c, tables) ==
    IF c.hit THEN c.value ELSE BuildPollingUnitResultsDf(tables).frame

\* next(_id for _id, name in pairs if name == selected): the first match
FirstId(pairs, selected) ==
    pairs[CHOOSE i \in DOMAIN pairs :
              /\ pairs[i].name = selected
              /\ \A j \in 1..(i - 1) : pairs[j].name # selected].id

\* int(DF['polling_unit_uniqueid'].max()), 0 when every identifier is null
MaxId(df) ==
    LET ids == {df.rows[i]["polling_unit_uniqueid"] : i \in DOMAIN df.rows} \ {NULL}
    IN  IF ids = {} THEN 0 ELSE CHOOSE m \in ids : \A n \in ids : n <= m

\* the identifiers a polling unit of the model can have
UnitIds == 1..(MaxPU + MaxAdds + 1)

\* str.lower() on the names of the model
Lower(name) ==
    IF \E i \in UnitIds : name = "Unit " \o ToString(i)
    THEN "unit " \o ToString(CHOOSE i \in UnitIds : name = "Unit " \o ToString(i))
    ELSE IF \E i \in UnitIds : name = "New PU " \o ToString(i)
    THEN "new pu " \o ToString(CHOOSE i \in UnitIds : name = "New PU " \o ToString(i))
    ELSE IF name = "Hall" THEN "hall"
    ELSE name

\* existing_pus[existing_pus['polling_unit_number'] == pu_number] is not empty
NumberTaken(existing_pus, pu_number) ==
    \E i \in DOMAIN existing_pus : existing_pus[i]["polling_unit_number"] = pu_number

\* existing_pus[existing_pus['polling_unit_name'].str.lower() == pu_name.lower()]
\* is not empty (a null name equals nothing)
NameTaken(existing_pus, pu_name) ==
    \E i \in DOMAIN existing_pus :
        /\ existing_pus[i]["polling_unit_name"] # NA
        /\ Lower(existing_pus[i]["polling_unit_name"]) = Lower(pu_name)

\* pu_row, without the constant fields that neither the table nor the
\* polling_unit columns of the model hold
PuRow(new_uid, state, lga, ward, chosen_pu_number, chosen_pu_name) ==
    [uniqueid |-> new_uid, ward_id |-> ward.id, lga_id |-> lga.id,
     polling_unit_number |-> chosen_pu_number, polling_unit_name |-> chosen_pu_name,
     polling_unit_uniqueid |-> new_uid, ward_name |-> ward.name, lga_name |-> lga.name,
     state_id |-> state.id, state_name |-> state.name]

\* the row of the polling_unit table that the appended statement is read as
DumpRow(row) == [c \in SeqToSet(PUColumns) |-> row[c]]

\* what the user types: a name and a number, "" for a field left blank
Typed ==
    {[pu_name |-> "", pu_number |-> ""],
     [pu_name |-> "Hall", pu_number |-> ""],
     [pu_name |-> "unit 1", pu_number |-> ""],
     [pu_name |-> "", pu_number |-> "DT1"]}
    \cup {[pu_name |-> "", pu_number |-> "PU" \o ToString(i)] : i \in 3..(MaxPU + 2)}

InitSession ==
    /\ pc = "dump"
    /\ \E k \in 1..MaxPU,
          h \in {<<WardsPlain, LgasPlain, StatesBoth>>, <<WardsPartial, LgasPlain, NoTable>>} :
           dump = [polling_unit |-> PUTable(k), ward |-> h[1], lga |-> h[2],
                   announced_pu_results |-> QueryTallies, state |-> h[3]]
    /\ DF = EmptyFrame
    /\ error = ""
    /\ mapping = <<>>
    /\ added = <<>>
    /\ query = <<>>
    /\ ParserIdle
    /\ SessionIdle

\* the end of a script run that wrote nothing: the module's DF is the table
\* load_data() returned, which is now cached
EndRun(df, message) ==
    /\ DF' = df
    /\ error' = message
    /\ cached' = [hit |-> TRUE, value |-> df]
    /\ UNCHANGED <<dump, appended, added>>

\* a run of the script that adds nothing (first load, navigation, a widget
\* changed): DF = load_data()
Run ==
    /\ \E df \in {LoadData(cached, dump)} : EndRun(df, "")
    /\ pc' = "session"
    /\ UNCHANGED <<mapping, query>>
    /\ UNCHANGED parseVars

\* show_question_three from the click on "Add Polling Unit", for the state,
\* LGA and ward selected and the name and number typed
Submit(df, state, lga, ward, typed, written) ==
    LET existing_pus     == InScope(df, lga.id, ward.id)
        new_uid          == MaxId(df) + 1
        chosen_pu_number == IF typed.pu_number # "" THEN typed.pu_number
                            ELSE "PU" \o ToString(new_uid)
        chosen_pu_name   == IF typed.pu_name # "" THEN typed.pu_name
                            ELSE "New PU " \o ToString(new_uid)
        row == PuRow(new_uid, state, lga, ward, chosen_pu_number, chosen_pu_name)
    IN  IF typed.pu_number # "" /\ NumberTaken(existing_pus, typed.pu_number)
        THEN EndRun(df, "number exists")
        ELSE IF typed.pu_name # "" /\ NameTaken(existing_pus, typed.pu_name)
        THEN EndRun(df, "name exists")
        ELSE IF ~written
        THEN EndRun(df, "Failed to write to SQL file")
        ELSE /\ dump' = [dump EXCEPT !.polling_unit.rows = Append(@, DumpRow(row))]
             /\ appended' = Append(appended, row)
             /\ DF' = AddPollingUnitToDf(df, row)
             /\ added' = Append(added, row)
             /\ error' = ""
             /\ cached' = [hit |-> TRUE, value |-> df]

\* a run of the script in which the user, on the page "Question Three",
\* clicks "Add Polling Unit": DF = load_data(), then show_question_three
AddPollingUnit ==
    /\ Len(appended) < MaxAdds
    /\ \E df \in {LoadData(cached, dump)} :
       \E states \in {GetStates(df)} :
           IF states.error # "" THEN EndRun(df, states.error)
           ELSE IF states.pairs = <<>> THEN EndRun(df, "No state/LGA/ward data")
           ELSE \E s \in DOMAIN states.pairs :
                \E state \in {[id |-> FirstId(states.pairs, states.pairs[s].name),
                               name |-> states.pairs[s].name]} :
                \E lgas \in {GetLgasByState(df, state.id)} :
                   IF lgas.pairs = <<>> THEN EndRun(df, "No LGAs found")
                   ELSE \E l \in DOMAIN lgas.pairs :
                       IF lgas.pairs[l].name = NA THEN EndRun(df, "StopIteration")
                       ELSE
                       \E lga \in {[id |-> FirstId(lgas.pairs, lgas.pairs[l].name),
                                    name |-> lgas.pairs[l].name]} :
                       \E wards \in {GetWardsByLga(df, lga.id)} :
                           IF wards.error # "" THEN EndRun(df, wards.error)
                           ELSE IF wards.pairs = <<>> THEN EndRun(df, "No wards found")
                           ELSE \E w \in DOMAIN wards.pairs :
                               IF wards.pairs[w].name = NA THEN EndRun(df, "StopIteration")
                               ELSE
                               \E ward \in {[id |-> FirstId(wards.pairs, wards.pairs[w].name),
                                             name |-> wards.pairs[w].name]} :
                               \E typed \in Typed, written \in BOOLEAN :
                                   Submit(df, state, lga, ward, typed, written)
    /\ pc' = "session"
    /\ UNCHANGED <<mapping, query>>
    /\ UNCHANGED parseVars

\* the server process ends: the module's DF and the cache entry go with it,
\* the dump file stays
Restart ==
    /\ pc = "session"
    /\ cached.hit
    /\ cached' = NoEntry
    /\ DF' = EmptyFrame
    /\ error' = ""
    /\ pc' = "dump"
    /\ UNCHANGED <<dump, appended, added, mapping, query>>
    /\ UNCHANGED parseVars

Next == Run \/ AddPollingUnit \/ Restart

Spec == InitSession /\ [][Next]_vars

----------------------------------------------------------------------------
(* Claims C13, C14 and C15 *)

\* the table holds a row for the polling unit of pu_row
InTable(df, row) ==
    \E i \in DOMAIN df.rows :
        /\ df.rows[i]["polling_unit_uniqueid"] = row["polling_unit_uniqueid"]
        /\ df.rows[i]["polling_unit_name"] = row["polling_unit_name"]
        /\ df.rows[i]["polling_unit_number"] = row["polling_unit_number"]

\* the polling_unit table of the dump holds the row of pu_row
InDump(row) ==
    \E i \in DOMAIN dump.polling_unit.rows : dump.polling_unit.rows[i] = DumpRow(row)

\* C13: add_polling_unit_to_df is called only after the append succeeded (a
\* failed append leaves the in-memory table as it was loaded), and in every
\* state of a running session after an add attempt the in-memory table holds
\* the new row if and only if its statement was appended to the dump.
C13_AppendBeforeMemory ==
    pc = "session" =>
        /\ Len(added) = Len(appended)
        /\ \A k \in DOMAIN added : InDump(added[k])
        /\ error = "Failed to write to SQL file" => DF = cached.value
        /\ \A k \in DOMAIN appended : InTable(DF, appended[k])

\* C14: the identifiers written to the dump by the adds are pairwise distinct,
\* and distinct from every identifier that the dump held before them.
C14_FreshIds ==
    LET before == Len(dump.polling_unit.rows) - Len(appended)
    IN  /\ \A i, j \in DOMAIN appended :
               i # j => appended[i]["uniqueid"] # appended[j]["uniqueid"]
        /\ \A k \in DOMAIN appended :
               \A i \in 1..before :
                   dump.polling_unit.rows[i]["uniqueid"] # appended[k]["uniqueid"]

\* C15: no two rows of the in-memory table with the same (lga_id, ward_id)
\* share a polling-unit number, or a polling-unit name case-insensitively, and
\* after a rejected duplicate the table is the one that was loaded.
C15_ScopeUnique ==
    /\ \A i, j \in DOMAIN DF.rows :
           (/\ i # j
            /\ DF.rows[i]["lga_id"] = DF.rows[j]["lga_id"]
            /\ DF.rows[i]["ward_id"] = DF.rows[j]["ward_id"]) =>
               /\ DF.rows[i]["polling_unit_number"] # DF.rows[j]["polling_unit_number"]
               /\ Lower(DF.rows[i]["polling_unit_name"]) # Lower(DF.rows[j]["polling_unit_name"])
    /\ error \in {"number exists", "name exists"} => DF = cached.value

----------------------------------------------------------------------------
(* Value Coercion on its own: every token over a small alphabet *)

TokenChars == {"0", "7", "-", "+", ".", "e", " ", "N", "U", "L", "n"}

Tokens == UNION {[1..k -> TokenChars] : k \in 0..MaxTokLen}

InitCoerce ==
    /\ pc = "token"
    /\ token \in Tokens
    /\ converted = None
    /\ pu_row = <<>>
    /\ sql_text = <<>>
    /\ parsed = <<>>
    /\ TablesIdle
    /\ SessionIdle

Convert ==
    /\ pc = "token"
    /\ converted' = ConvertSqlValue(token)
    /\ pc' = "converted"
    /\ UNCHANGED <<token, pu_row, sql_text, parsed>>
    /\ UNCHANGED tableVars
    /\ UNCHANGED sessionVars

NextCoerce == Convert

SpecCoerce == InitCoerce /\ [][NextCoerce]_vars

----------------------------------------------------------------------------
(* Append a statement to the dump, then read it back *)

NameChars == {"a", "7", "'", ",", ")", ";"}

Names == UNION {[1..k -> NameChars] : k \in 0..MaxNameLen}

\* lat as the caller may give it: None, 6, 6.0, 6.5, -0.5
LatValues ==
    {None, MkInt(FALSE, 6), MkFloat(FALSE, 6, <<"0">>), MkFloat(FALSE, 6, <<"5">>),
     MkFloat(TRUE, 0, <<"5">>)}

\* the field mapping show_question_three builds, with the name and lat given
FieldMapping(name, lat) ==
    [c \in {col_order[i] : i \in DOMAIN col_order} |->
        CASE c = "uniqueid" -> MkInt(FALSE, 9001)
          [] c = "polling_unit_id" -> MkInt(FALSE, 0)
          [] c = "ward_id" -> MkInt(FALSE, 4)
          [] c = "lga_id" -> MkInt(FALSE, 17)
          [] c = "uniquewardid" -> MkInt(FALSE, 0)
          [] c = "polling_unit_number" -> MkStr(<<"P", "U", "7">>)
          [] c = "polling_unit_name" -> MkStr(name)
          [] c = "polling_unit_description" -> MkStr(<<>>)
          [] c = "lat" -> lat
          [] c = "long" -> None
          [] c = "entered_by_user" -> MkStr(<<>>)
          [] c = "date_entered" ->
                 MkStr(<<"0", "0", "0", "0", "-", "0", "0", "-", "0", "0", " ",
                         "0", "0", ":", "0", "0", ":", "0", "0">>)
          [] c = "user_ip_address" -> MkStr(<<>>)]

InitParse ==
    /\ pc = "row"
    /\ \E name \in Names, lat \in LatValues : pu_row = FieldMapping(name, lat)
    /\ sql_text = <<>>
    /\ parsed = <<>>
    /\ token = <<>>
    /\ converted = None
    /\ TablesIdle
    /\ SessionIdle

\* append_polling_unit_to_sql(sql_path, pu_row)
AppendToSql ==
    /\ pc = "row"
    /\ sql_text' = Append(sql_text, InsertStatement(pu_row))
    /\ pc' = "appended"
    /\ UNCHANGED <<pu_row, parsed, token, converted>>
    /\ UNCHANGED tableVars
    /\ UNCHANGED sessionVars

\* _parse_insert_blocks(stmt, 'polling_unit') of the statement returned
ParseBack ==
    /\ pc = "appended"
    /\ parsed' = ParseInsertBlocks(<<sql_text[Len(sql_text)]>>, "polling_unit")
    /\ pc' = "parsed"
    /\ UNCHANGED <<pu_row, sql_text, token, converted>>
    /\ UNCHANGED tableVars
    /\ UNCHANGED sessionVars

NextParse == AppendToSql \/ ParseBack

SpecParse == InitParse /\ [][NextParse]_vars

----------------------------------------------------------------------------
(* Claims C2 and C8 *)

\* Python's == on two scalars: numbers compare by value, whatever their type
PyEq(a, b) ==
    IF a.kind \in {"int", "float"} /\ b.kind \in {"int", "float"}
    THEN a.neg = b.neg /\ a.n = b.n /\ a.f = b.f
    ELSE a = b

\* a field value after the null/type coercion rules: a string is read back as
\* Value Coercion reads its text
Coerced(v) == IF v.kind = "str" THEN ConvertSqlValue(v.s) ELSE v

Contains(s, c) == \E i \in DOMAIN s : s[i] = c

\* C2: the statement written for a field mapping, parsed back, is exactly one
\* row whose value for every column of the fixed order equals the field's
\* value, up to the null/type coercion rules.
C2_RoundTrip ==
    pc = "parsed" =>
        /\ Len(parsed) = 1
        /\ \A i \in DOMAIN col_order :
               /\ col_order[i] \in DOMAIN parsed[1]
               /\ PyEq(parsed[1][col_order[i]], Coerced(Get(pu_row, col_order[i])))

\* C8: a quoted string field that contains a comma is read back as one token:
\* the tuple gives one row, one value per column, the field's text intact.
C8_QuotedCommaKept ==
    pc = "parsed" /\ Contains(pu_row["polling_unit_name"].s, ",") =>
        /\ Len(parsed) = 1
        /\ DOMAIN parsed[1] = {col_order[i] : i \in DOMAIN col_order}
        /\ parsed[1]["polling_unit_name"] = MkStr(Strip(pu_row["polling_unit_name"].s))
        /\ parsed[1]["polling_unit_number"] = pu_row["polling_unit_number"]
        /\ parsed[1]["polling_unit_description"] = None
        /\ parsed[1]["date_entered"] = pu_row["date_entered"]

----------------------------------------------------------------------------
(* Claim C7 *)

\* the token without the minus sign that the patterns allow in front
Unsigned(t) == IF t # <<>> /\ t[1] = "-" THEN Tail(t) ELSE t

AllDigits(x) == x # <<>> /\ \A i \in DOMAIN x : x[i] \in Digits

IntShape(t) == AllDigits(Unsigned(t))

DecimalShape(t) ==
    LET u == Unsigned(t)
    IN  \E k \in DOMAIN u :
            /\ u[k] = "."
            /\ AllDigits(SubSeq(u, 1, k - 1))
            /\ AllDigits(SubSeq(u, k + 1, Len(u)))

NullShape(t) == t = <<>> \/ (Len(t) = 4 /\ UpperStr(t) = <<"N", "U", "L", "L">>)

\* an all-digit token of two or more digits that starts with 0, signed or not
LeadingZero(t) ==
    LET u == IF t # <<>> /\ t[1] \in {"-", "+"} THEN Tail(t) ELSE t
    IN  Len(u) >= 2 /\ u[1] = "0" /\ AllDigits(u)

HasExponent(t) == \E i \in DOMAIN t : t[i] \in {"e", "E"}

\* C7 as stated: the four kinds, and leading-zero and exponent tokens stay
\* strings.
C7_LeadingZerosAreStrings ==
    pc = "converted" =>
        LET t == Strip(token)
        IN  /\ NullShape(t) <=> converted.kind = "null"
            /\ (LeadingZero(t) \/ HasExponent(t)) => converted = MkStr(t)

\* C7 (amended): Value Coercion maps every trimmed token to exactly one kind:
\* null if it is empty or case-insensitively NULL; the integer it denotes if
\* it is an optional minus sign followed only by digits, leading zeros
\* included (007 is the integer 7); the decimal it denotes if it is an
\* optional minus sign, digits, a dot, digits; otherwise the trimmed token
\* unchanged as a string, which is what a token with a plus sign or an
\* exponent (7e7) is.
C7_Coercion ==
    pc = "converted" =>
        LET t == Strip(token)
            u == Unsigned(t)
        IN  /\ converted.kind \in {"null", "int", "float", "str"}
            /\ NullShape(t) <=> converted.kind = "null"
            /\ IntShape(t) <=> converted.kind = "int"
            /\ DecimalShape(t) <=> converted.kind = "float"
            /\ converted.kind = "int" =>
                   /\ converted.n = DecVal(u)
                   /\ converted.neg = (t[1] = "-" /\ DecVal(u) # 0)
            /\ converted.kind = "float" =>
                   \E k \in DOMAIN u :
                       /\ u[k] = "."
                       /\ converted.n = DecVal(SubSeq(u, 1, k - 1))
                       /\ converted.f = DropTrailingZeros(SubSeq(u, k + 1, Len(u)))
            /\ converted.kind = "str" => converted.s = t
            /\ LeadingZero(t) /\ t[1] # "+" => converted.kind = "int"
            /\ (HasExponent(t) \/ (t # <<>> /\ t[1] = "+")) /\ ~NullShape(t)
                   => converted.kind = "str"

\* 007 has been converted, to the integer 7
C7_Witness ==
    /\ pc = "converted"
    /\ token = <<"0", "0", "7">>
    /\ converted = MkInt(FALSE, 7)

====
